---- MODULE Spec2Model ----
(***************************************************************************)
(* GA4 -> content-catalog pageview synchronisation                         *)
(* (src/functions/ga4-sync/main.py, class GA4DataSync).                    *)
(*                                                                         *)
(* Strings are sequences of tokens.  A token is one character ("/", "?",   *)
(* "#", " ", "a") or one literal of the source that the code only ever     *)
(* compares as a whole ("https:", "www.foresight.jp", "column").           *)
(***************************************************************************)
EXTENDS Integers, Sequences, FiniteSets, TLC

VARIABLES
    pc,                \* position of the run inside sync_pageviews_optimized and its callees
    over,              \* elapsed > TIMEOUT_SECONDS (main.py:46-47): the time since start_time is above 480 s
    warehouse,         \* content warehouse: [courses: number of course rows, articles: article rows]
    mapping,           \* loader's result: pattern -> entry
    probe_i,           \* get_available_ga4_tables: loop index i
    available_tables,  \* get_available_ga4_tables: suffixes found (day offsets, 0 = today)
    tiers,             \* history: the tier attempts of this run, [tier, tables, outcome]
    timeout_count,     \* poll counter of the tier being polled
    ga4_data,          \* fetcher's result: raw rows
    pageviews_updates, \* reconciler's result: deltas
    batch_i,           \* update_pageviews_batch_optimized: loop index i (0-based)
    total_updated,     \* update_pageviews_batch_optimized: total_updated
    indiv_j,           \* update_pageviews_individual_optimized: index into the batch (1-based)
    updated_count,     \* update_pageviews_individual_optimized: updated_count
    exc,               \* exception propagating to sync_pageviews_optimized: "none", "TimeoutError", "Exception"
    result,            \* the dict returned by sync_pageviews_optimized (status "none" before it returns)
    returned,          \* history: number of results returned
    calls,             \* history: budget checks and remote calls, in order
    started,           \* history: per stage, "no", or whether the clock was "within" or "over" when it was about to start
    writes,            \* history: the update statements of this run, [stmt, ids, ok], in order
    prev_data,         \* history: the raw rows the previous run reconciled and applied (<<>>: no previous run)
    inflight,          \* the remote jobs of this run that have neither ended nor been cancelled, [stmt, from, to]
    request,           \* the trigger's input: an HTTP request (with or without daysBack) or a scheduler event
    h_pc,              \* position of the entry point: "direct" (none), "request", "running", "responded"
    response,          \* what the entry point returned to its caller
    u_pc,      \* position of the URL/key computation: "idle", "url", "normalized", "renormalized", "row", "keyed";
               \* of the partition selection: "window", "probed", "selected";
               \* of the repeated write: "deltas", "once", "again"
    u_in,      \* its input: a raw URL, or a joined row [course_slug, article_link], or [days_back, exists],
               \* or [articles, deltas]
    u_out      \* its outputs so far (a record)

uvars == <<u_pc, u_in, u_out>>

tvars == <<request, h_pc, response>>

pvars == <<pc, over, warehouse, mapping, probe_i, available_tables, tiers, timeout_count,
           ga4_data, pageviews_updates, batch_i, total_updated, indiv_j, updated_count,
           exc, result, returned, calls, started, writes, prev_data, inflight>>

vars == <<pvars, uvars, tvars>>

----------------------------------------------------------------------------
(* Bounds of the model *)

\* longest path part of a raw URL (the tokens after the scheme/host prefix)
MaxUrlLen == 6
\* longest tail of a raw URL after its path part
MaxSuffixLen == 1
\* longest course slug returned by the join query
MaxSlugLen == 1
\* longest article link returned by the join query
MaxLinkLen == 4

\* the look-back windows of the partition selection are 1 .. MaxDaysBack
MaxDaysBack == 4
\* most jobs a run leaves in flight at one time by giving up waiting for them
MaxAbandoned == 1
\* largest count a row of the articles table holds before it is written
MaxStored == 1

----------------------------------------------------------------------------
(* Strings *)

\* Python's None, where a str is expected
None == <<"None">>

\* netloc compared at main.py:508
ContentHost == "www.foresight.jp"

\* '/column/' searched at main.py:513 and inserted at main.py:451
ColumnMarker == <<"/", "column", "/">>

\* characters removed by str.strip() without argument
Whitespace == {" "}

\* the URL of a path on the content host
OnHost(path) == <<"https:", "/", "/", ContentHost, "/">> \o path

SeqsUpTo(S, n) == UNION {[1..k -> S] : k \in 0..n}

\* s[i:] (1-based, i may be Len(s)+1)
From(s, i) == SubSeq(s, i, Len(s))

\* s[:i-1]
Before(s, i) == SubSeq(s, 1, i - 1)

\* index of the first token of s, at or after i, that is in C; Len(s)+1 if none
RECURSIVE FindFirst(_, _, _)
FindFirst(s, C, i) ==
    IF i > Len(s) THEN Len(s) + 1
    ELSE IF s[i] \in C THEN i
    ELSE FindFirst(s, C, i + 1)

\* str.lstrip(chars)
RECURSIVE LStrip(_, _)
LStrip(s, C) ==
    IF s # <<>> /\ Head(s) \in C THEN LStrip(Tail(s), C) ELSE s

\* str.rstrip(chars)
RECURSIVE RStrip(_, _)
RStrip(s, C) ==
    IF s # <<>> /\ s[Len(s)] \in C THEN RStrip(SubSeq(s, 1, Len(s) - 1), C) ELSE s

\* str.strip(chars)
Strip(s, C) == RStrip(LStrip(s, C), C)

\* str.endswith(c), c one character
EndsWith(s, c) == s # <<>> /\ s[Len(s)] = c

\* sub in s
Contains(s, sub) ==
    \E i \in 1..(Len(s) - Len(sub) + 1) : SubSeq(s, i, i + Len(sub) - 1) = sub

\* urllib.parse.urlparse, for URLs over the model's tokens: the scheme is
\* split off, then the netloc after '//', then the fragment at the first '#',
\* then the query at the first '?'; what is left is the path.
urlparse(url) ==
    LET hasScheme == url # <<>> /\ Head(url) = "https:"
        r0 == IF hasScheme THEN Tail(url) ELSE url
        hasNetloc == Len(r0) >= 2 /\ r0[1] = "/" /\ r0[2] = "/"
        delim == FindFirst(r0, {"/", "?", "#"}, 3)
        netloc == IF hasNetloc THEN SubSeq(r0, 3, delim - 1) ELSE <<>>
        r1 == IF hasNetloc THEN From(r0, delim) ELSE r0
        r2 == Before(r1, FindFirst(r1, {"#"}, 1))
        r3 == Before(r2, FindFirst(r2, {"?"}, 1))
    IN [scheme |-> IF hasScheme THEN "https" ELSE "",
        netloc |-> netloc,
        path |-> r3]

\* a faulty variant of normalize_ga4_url: the host check is dropped
normalize_ga4_url_anyhost(url) ==
    IF url = <<>> \/ url = None THEN None
    ELSE LET path == Strip(urlparse(url).path, {"/"})
         IN IF ~Contains(path, ColumnMarker) THEN None
            ELSE IF path # <<>> /\ ~EndsWith(path, "/") THEN path \o <<"/">>
            ELSE path

\* GA4DataSync.normalize_ga4_url
normalize_ga4_url(url) ==
    IF url = <<>> \/ url = None THEN None
    ELSE LET parsed_url == urlparse(url)
             path == Strip(parsed_url.path, {"/"})
         IN IF parsed_url.netloc # <<ContentHost>> THEN None
            ELSE IF ~Contains(path, ColumnMarker) THEN None
            ELSE IF path # <<>> /\ ~EndsWith(path, "/") THEN path \o <<"/">>
            ELSE path

\* a faulty variant of NormalizeLink: the trailing '/' is never appended
NormalizeLink_asis(link) == Strip(link, Whitespace)

\* main.py:446-448: the link column, stripped, with a trailing '/'
NormalizeLink(link) ==
    LET article_link == Strip(link, Whitespace)
    IN IF ~EndsWith(article_link, "/") THEN article_link \o <<"/">> ELSE article_link

\* main.py:451: the mapping key of a joined row
Pattern(course_slug, link) ==
    course_slug \o <<"/", "column", "/">> \o NormalizeLink(link)

----------------------------------------------------------------------------
(* Configuration and data of the pipeline runs *)

\* look-back window in days (GA4_DAYS_BACK, main.py:24: from the environment, default 7)
GA4_DAYS_BACK == 1

\* rows per bulk statement (BULK_INSERT_BATCH_SIZE, main.py:33, is 500; the model's batches are small)
BatchSize == 2

\* main.py:154: the Standard tier cancels when timeout_count > 10
StandardPollCeiling == 10

\* main.py:245: the Fallback tier cancels when timeout_count > 8
FallbackPollCeiling == 8

\* main.py:192: the Fallback tier uses available_tables[:max(3, GA4_DAYS_BACK)]
FallbackTables == 3

Max(a, b) == IF a >= b THEN a ELSE b
Min(a, b) == IF a <= b THEN a ELSE b
Abs(x) == IF x < 0 THEN -x ELSE x
Range(s) == {s[i] : i \in DOMAIN s}
Front(s) == SubSeq(s, 1, Len(s) - 1)
Last(s) == s[Len(s)]

\* s[:n]
Take(s, n) == SubSeq(s, 1, Min(n, Len(s)))

\* a row of the articles table, with the slug of its course; joined: its
\* koza_id is the id of a course whose slug is not empty.  The average
\* engagement time is stored in units of 0.0001 s (the writes format it '.4f').
Article(id, slug, link, title, joined, pv, avg) ==
    [id |-> id, course_slug |-> slug, link |-> link, title |-> title, joined |-> joined,
     pageviews |-> pv, organic_sessions |-> 0, engaged_sessions |-> 0,
     avg_engagement_time |-> avg]

\* content warehouses a run may find
Warehouses ==
    { [courses |-> 0, articles |-> <<>>],
      [courses |-> 0, articles |-> <<Article(1, <<"a">>, <<"x">>, "short", FALSE, 0, 0)>>],
      [courses |-> 1, articles |-> <<Article(1, <<"a">>, <<"x">>, "short", FALSE, 0, 0)>>],
      [courses |-> 1, articles |-> <<Article(1, <<"a">>, <<>>, "short", TRUE, 0, 0)>>],
      [courses |-> 1, articles |-> <<Article(1, <<"a">>, <<"x">>, "short", TRUE, 2, 10000),
                                      Article(2, <<"a">>, <<"y", "/">>, "long", TRUE, 0, 0),
                                      Article(3, <<"b">>, <<" ", "x">>, "short", TRUE, 0, 0)>>],
      [courses |-> 1, articles |-> <<Article(1, <<"a">>, <<"x">>, "null", TRUE, 0, 0)>>],
      [courses |-> 1, articles |-> <<Article(1, <<"a">>, <<"x">>, "short", TRUE, 0, 0),
                                      Article(2, <<"a">>, <<"x", "/">>, "short", TRUE, 0, 0)>> ] }

\* a row of a tier query's result
Raw(url, pv, org, eng, ms, sessions) ==
    [page_location |-> url, pageviews |-> pv, organic_sessions |-> org,
     engaged_sessions |-> eng, total_engagement_time_msec |-> ms, total_sessions |-> sessions]

\* results a tier query may return: one row per page_location (GROUP BY), each
\* with pageviews >= 1 (HAVING).  The Minimal tier filters with
\* LIKE '%foresight.jp%column%' only (main.py:294), so a row may be on another
\* host or have no '/column/' in its path.
RawResults ==
    { <<>>,
      <<Raw(OnHost(<<"a", "/", "column", "/", "x">>), 2, 0, 0, 3200, 3)>>,
      <<Raw(OnHost(<<"a", "/", "column", "/", "x">>), 1, 1, 0, 1000, 1),
        Raw(OnHost(<<"a", "/", "column", "/", "y", "/", "?", "q">>), 1, 0, 1, 3000, 2),
        Raw(OnHost(<<"a", "/", "column", "/", "x", "/", "#", "f">>), 2, 0, 0, 2000, 1),
        Raw(OnHost(<<"b", "/", "column", "/", "x">>), 1, 0, 0, 0, 0),
        Raw(OnHost(<<"c", "/", "column", "/", "x">>), 1, 0, 0, 0, 0)>>,
      <<Raw(<<"https:", "/", "/", "other.example", "/", "a", "/", "column", "/", "x">>, 3, 0, 0, 0, 1),
        Raw(OnHost(<<"a", "/", "x">>), 1, 0, 0, 0, 1),
        Raw(OnHost(<<"c", "/", "column", "/", "x">>), 1, 0, 0, 0, 0),
        Raw(OnHost(<<"a", "/", "column", "/", "x">>), 2, 0, 0, 5000, 1)>> }

----------------------------------------------------------------------------
(* Pure parts of the loader and the reconciler *)

EmptyMapping == [k \in {} |-> 0]

\* main.py:453-462
Entry(row) ==
    [article_id |-> row.id, course_slug |-> row.course_slug,
     article_link |-> NormalizeLink(row.link), article_title |-> row.title,
     current_pageviews |-> row.pageviews,
     current_organic_sessions |-> row.organic_sessions,
     current_engaged_sessions |-> row.engaged_sessions,
     current_avg_engagement_time |-> row.avg_engagement_time]

\* main.py:439-462: the dict built from the join's rows, a later row replacing
\* an earlier one with the same pattern
RECURSIVE BuildMapping(_)
BuildMapping(rows) ==
    IF rows = <<>> THEN EmptyMapping
    ELSE LET m == BuildMapping(Front(rows))
             row == Last(rows)
             pattern == Pattern(row.course_slug, row.link)
         IN [k \in DOMAIN m \cup {pattern} |-> IF k = pattern THEN Entry(row) ELSE m[k]]

\* main.py:425-430: the rows the join query returns
RECURSIVE JoinRows(_)
JoinRows(articles) ==
    IF articles = <<>> THEN <<>>
    ELSE LET rest == JoinRows(Front(articles))
             a == Last(articles)
         IN IF a.joined /\ a.course_slug # <<>> /\ a.link # <<>> THEN Append(rest, a) ELSE rest

\* main.py:412-437: the join query has no ORDER BY, its rows come in any order
RowOrders(rows) ==
    {[i \in DOMAIN rows |-> rows[p[i]]] : p \in Permutations(DOMAIN rows)}

\* main.py:382-394: the number of courses with a slug and at least one article
BasicCount(w) ==
    IF w.courses > 0 /\ \E i \in DOMAIN w.articles : w.articles[i].joined THEN 1 ELSE 0

\* main.py:540-557: the keys of path_metrics, in insertion order
RECURSIVE PathOrder(_)
PathOrder(data) ==
    IF data = <<>> THEN <<>>
    ELSE LET rest == PathOrder(Front(data))
             normalized_path == normalize_ga4_url(Last(data).page_location)
         IN IF normalized_path = None \/ normalized_path \in Range(rest) THEN rest
            ELSE Append(rest, normalized_path)

\* main.py:553-557: one field summed over the rows of a path
RECURSIVE SumField(_, _, _)
SumField(data, path, f) ==
    IF data = <<>> THEN 0
    ELSE SumField(Front(data), path, f)
         + (IF normalize_ga4_url(Last(data).page_location) = path THEN Last(data)[f] ELSE 0)

\* main.py:546-557: path_metrics[path]
PathMetrics(data, path) ==
    [f \in {"pageviews", "organic_sessions", "engaged_sessions",
            "total_engagement_time_msec", "total_sessions"} |-> SumField(data, path, f)]

\* a faulty variant of AvgEngagementTime: milliseconds are not converted to seconds
AvgEngagementTime_msec(metrics) ==
    IF metrics.total_sessions > 0
    THEN [num |-> metrics.total_engagement_time_msec, den |-> metrics.total_sessions]
    ELSE [num |-> 0, den |-> 1]

\* main.py:574-577: the average engagement time in seconds, as a fraction
AvgEngagementTime(metrics) ==
    IF metrics.total_sessions > 0
    THEN [num |-> metrics.total_engagement_time_msec, den |-> metrics.total_sessions * 1000]
    ELSE [num |-> 0, den |-> 1]

\* main.py:580-585: the stored values differ from the aggregated ones
\* (current_avg_engagement_time is in units of 0.0001 s; 0.1 s is 1000 units)
Material(article_info, metrics) ==
    LET avg == AvgEngagementTime(metrics)
    IN \/ Abs(article_info.current_pageviews - metrics.pageviews) > 0
       \/ Abs(article_info.current_organic_sessions - metrics.organic_sessions) > 0
       \/ Abs(article_info.current_engaged_sessions - metrics.engaged_sessions) > 0
       \/ Abs(article_info.current_avg_engagement_time * avg.den - 10000 * avg.num) > 1000 * avg.den

\* main.py:593
TitleExcerpt(title) == IF title = "long" THEN "long[:50]..." ELSE title

\* main.py:586-594
Delta(article_info, metrics) ==
    [article_id |-> article_info.article_id,
     pageviews |-> metrics.pageviews,
     organic_sessions |-> metrics.organic_sessions,
     engaged_sessions |-> metrics.engaged_sessions,
     avg_engagement_time |-> AvgEngagementTime(metrics),
     course_slug |-> article_info.course_slug,
     article_title |-> TitleExcerpt(article_info.article_title)]

\* main.py:569-596: the deltas of the paths of a list, in order
RECURSIVE MatchPaths(_, _, _)
MatchPaths(paths, data, url_patterns) ==
    IF paths = <<>> THEN <<>>
    ELSE LET rest == MatchPaths(Front(paths), data, url_patterns)
             normalized_path == Last(paths)
             metrics == PathMetrics(data, normalized_path)
         IN IF normalized_path \in DOMAIN url_patterns
               /\ Material(url_patterns[normalized_path], metrics)
            THEN Append(rest, Delta(url_patterns[normalized_path], metrics))
            ELSE rest

\* a faulty variant of MatchRaises: a path that is not a key raises, too
MatchRaises_unmatched(data, url_patterns) ==
    \E i \in DOMAIN PathOrder(data) :
        LET normalized_path == PathOrder(data)[i]
        IN \/ normalized_path \notin DOMAIN url_patterns
           \/ /\ Material(url_patterns[normalized_path], PathMetrics(data, normalized_path))
              /\ url_patterns[normalized_path].article_title = "null"

\* main.py:593: len(None) raises TypeError when a delta is built for an article without title
MatchRaises(data, url_patterns) ==
    \E i \in DOMAIN PathOrder(data) :
        LET normalized_path == PathOrder(data)[i]
        IN /\ normalized_path \in DOMAIN url_patterns
           /\ Material(url_patterns[normalized_path], PathMetrics(data, normalized_path))
           /\ url_patterns[normalized_path].article_title = "null"

\* main.py:530-600 without the budget check
MatchAndAggregate(data, url_patterns) == MatchPaths(PathOrder(data), data, url_patterns)

\* the value a '.4f' format writes for a fraction of seconds, in units of 0.0001 s
Format4f(avg) == (2 * 10000 * avg.num + avg.den) \div (2 * avg.den)

\* a faulty variant of ApplyUpdates: the metrics are added to the stored ones
ApplyUpdates_incremental(articles, deltas) ==
    [i \in DOMAIN articles |->
        IF \E d \in DOMAIN deltas : deltas[d].article_id = articles[i].id
        THEN LET d == CHOOSE d \in DOMAIN deltas :
                          /\ deltas[d].article_id = articles[i].id
                          /\ \A e \in 1..(d - 1) : deltas[e].article_id # articles[i].id
             IN [articles[i] EXCEPT !.pageviews = @ + deltas[d].pageviews,
                                    !.organic_sessions = @ + deltas[d].organic_sessions,
                                    !.engaged_sessions = @ + deltas[d].engaged_sessions,
                                    !.avg_engagement_time = Format4f(deltas[d].avg_engagement_time)]
        ELSE articles[i]]

\* main.py:634-655 and 683-692: the articles table after an update statement for the deltas
ApplyUpdates(articles, deltas) ==
    [i \in DOMAIN articles |->
        IF \E d \in DOMAIN deltas : deltas[d].article_id = articles[i].id
        THEN LET d == CHOOSE d \in DOMAIN deltas :
                          /\ deltas[d].article_id = articles[i].id
                          /\ \A e \in 1..(d - 1) : deltas[e].article_id # articles[i].id
             IN [articles[i] EXCEPT !.pageviews = deltas[d].pageviews,
                                    !.organic_sessions = deltas[d].organic_sessions,
                                    !.engaged_sessions = deltas[d].engaged_sessions,
                                    !.avg_engagement_time = Format4f(deltas[d].avg_engagement_time)]
        ELSE articles[i]]

----------------------------------------------------------------------------
(* The run: GA4DataSync() followed by sync_pageviews_optimized() *)

Stages == {"load", "fetch", "reconcile", "apply"}

\* sync_pageviews_optimized is called on a constructed GA4DataSync, without entry point
NoTrigger ==
    /\ request = [kind |-> "none"]
    /\ h_pc = "direct"
    /\ response = [kind |-> "none"]

\* the URL computation does not run during a pipeline run
UrlIdle == u_pc = "idle" /\ u_in = <<>> /\ u_out = [path |-> None]

\* the constructor has set start_time; nothing has been called yet
Init ==
    /\ UrlIdle
    /\ NoTrigger
    /\ pc = "load"
    /\ over = FALSE
    /\ warehouse \in Warehouses
    /\ mapping = EmptyMapping
    /\ inflight = {}
    /\ probe_i = 0
    /\ available_tables = <<>>
    /\ tiers = <<>>
    /\ timeout_count = 0
    /\ ga4_data = <<>>
    /\ pageviews_updates = <<>>
    /\ batch_i = 0
    /\ total_updated = 0
    /\ indiv_j = 1
    /\ updated_count = 0
    /\ exc = "none"
    /\ result = [status |-> "none"]
    /\ returned = 0
    /\ calls = <<>>
    /\ started = [s \in Stages |-> "no"]
    /\ writes = <<>>
    /\ prev_data = <<>>

\* a faulty variant of check_timeout: the budget is never found exceeded
check_timeout_never == FALSE

\* GA4DataSync.check_timeout
check_timeout == over

\* the entry a budget check leaves in the history
Check == IF check_timeout THEN "check:over" ELSE "check:within"

\* the clock as a stage is about to start
Clock == IF over THEN "over" ELSE "within"

\* the wall clock passes TIMEOUT_SECONDS (at any moment of a run that has begun
\* and not finished)
ClockExceeds ==
    /\ pc \notin {"new", "done"}
    /\ ~over
    /\ over' = TRUE
    /\ UNCHANGED <<uvars, tvars, prev_data, inflight, writes, pc, warehouse, mapping, probe_i, available_tables, tiers, timeout_count,
                   ga4_data, pageviews_updates, batch_i, total_updated, indiv_j,
                   updated_count, exc, result, returned, calls, started>>

\* raise e, to be caught by sync_pageviews_optimized
Raise(e) == pc' = "except" /\ exc' = e

\* the ways a blocking remote call ends for the client: its result arrives,
\* it raises at once, or result(timeout=...) stops waiting for the job
Returns == {"ok", "error", "timeout"}

\* a remote job: its statement and, for an update statement, the deltas it
\* writes, pageviews_updates[from..to] (from = 1, to = 0: none, a query)
Job(stmt, from, to) == [stmt |-> stmt, from |-> from, to |-> to]

Query(stmt) == Job(stmt, 1, 0)

\* main.py:355, 367, 398, 437, 486, 319, 660, 697: query_job.result(timeout=T)
\* raises when T has passed; nothing cancels the job, which stays in flight
Abandon(o, job) ==
    /\ o = "timeout" => Cardinality(inflight) < MaxAbandoned
    /\ inflight' = IF o = "timeout" THEN inflight \union {job} ELSE inflight

\* main.py:341-342: the loader's budget check
LoadStart ==
    /\ pc = "load"
    /\ started' = [started EXCEPT !["load"] = Clock]
    /\ calls' = Append(calls, Check)
    /\ IF check_timeout THEN Raise("TimeoutError")
       ELSE pc' = "load_courses" /\ exc' = exc
    /\ UNCHANGED <<uvars, tvars, prev_data, inflight, writes, over, warehouse, mapping, probe_i, available_tables, tiers, timeout_count,
                   ga4_data, pageviews_updates, batch_i, total_updated, indiv_j,
                   updated_count, result, returned>>

\* a faulty variant of LoaderReturnsEmpty: the error leaves the loader
LoaderReturnsEmpty_raises == mapping' = EmptyMapping /\ Raise("Exception")

\* main.py:373, 377, 405, 498: return {}
LoaderReturnsEmpty == mapping' = EmptyMapping /\ pc' = "loaded" /\ exc' = exc

\* main.py:347-357: the probe of the courses table
CountCourses ==
    /\ pc = "load_courses"
    /\ calls' = Append(calls, "courses_count")
    /\ \E o \in Returns :
          /\ Abandon(o, Query("courses_count"))
          /\ IF o = "ok" THEN pc' = "load_articles" /\ UNCHANGED <<mapping, exc>>
             ELSE LoaderReturnsEmpty
    /\ UNCHANGED <<uvars, tvars, prev_data, writes, over, warehouse, probe_i, available_tables, tiers, timeout_count,
                   ga4_data, pageviews_updates, batch_i, total_updated, indiv_j,
                   updated_count, result, returned, started>>

\* main.py:360-377: the probe of the articles table, and the test of both counts
CountArticles ==
    /\ pc = "load_articles"
    /\ calls' = Append(calls, "articles_count")
    /\ \E o \in Returns :
          /\ Abandon(o, Query("articles_count"))
          /\ IF o = "ok" /\ warehouse.courses # 0 /\ Len(warehouse.articles) # 0
             THEN pc' = "load_basic" /\ UNCHANGED <<mapping, exc>>
             ELSE LoaderReturnsEmpty
    /\ UNCHANGED <<uvars, tvars, prev_data, writes, over, warehouse, probe_i, available_tables, tiers, timeout_count,
                   ga4_data, pageviews_updates, batch_i, total_updated, indiv_j,
                   updated_count, result, returned, started>>

\* main.py:382-405: the grouped join that must return a row
BasicJoin ==
    /\ pc = "load_basic"
    /\ calls' = Append(calls, "basic_join")
    /\ \E o \in Returns :
          /\ Abandon(o, Query("basic_join"))
          /\ IF o = "ok" /\ BasicCount(warehouse) # 0
             THEN pc' = "load_join" /\ UNCHANGED <<mapping, exc>>
             ELSE LoaderReturnsEmpty
    /\ UNCHANGED <<uvars, tvars, prev_data, writes, over, warehouse, probe_i, available_tables, tiers, timeout_count,
                   ga4_data, pageviews_updates, batch_i, total_updated, indiv_j,
                   updated_count, result, returned, started>>

\* main.py:412-470: the join query and the dict built from its rows
Join ==
    /\ pc = "load_join"
    /\ calls' = Append(calls, "join")
    /\ \E o \in Returns :
          /\ Abandon(o, Query("join"))
          /\ IF o = "ok"
             THEN /\ \E rows \in RowOrders(JoinRows(warehouse.articles)) :
                     mapping' = BuildMapping(rows)
                  /\ pc' = IF DOMAIN mapping' = {} THEN "load_debug" ELSE "loaded"
                  /\ exc' = exc
             ELSE LoaderReturnsEmpty
    /\ UNCHANGED <<uvars, tvars, prev_data, writes, over, warehouse, probe_i, available_tables, tiers, timeout_count,
                   ga4_data, pageviews_updates, batch_i, total_updated, indiv_j,
                   updated_count, result, returned, started>>

\* main.py:470-498: the sample query logged when the dict is empty; the empty
\* dict is returned whether it succeeds or raises
DebugQuery ==
    /\ pc = "load_debug"
    /\ calls' = Append(calls, "debug")
    /\ \E o \in Returns :
          /\ Abandon(o, Query("debug"))
          /\ IF o = "ok" THEN pc' = "loaded" /\ UNCHANGED <<mapping, exc>>
             ELSE LoaderReturnsEmpty
    /\ UNCHANGED <<uvars, tvars, prev_data, writes, over, warehouse, probe_i, available_tables, tiers, timeout_count,
                   ga4_data, pageviews_updates, batch_i, total_updated, indiv_j,
                   updated_count, result, returned, started>>

\* main.py:716, 724: return {'status': 'failed', 'error': ...}
Failed(error) ==
    /\ result' = [status |-> "failed", error |-> error]
    /\ returned' = returned + 1
    /\ pc' = "done"

\* main.py:714-716: the test of the loader's result
AfterLoad ==
    /\ pc = "loaded"
    /\ IF DOMAIN mapping = {} THEN Failed("No mapping data")
       ELSE pc' = "fetch" /\ UNCHANGED <<result, returned>>
    /\ UNCHANGED <<uvars, tvars, prev_data, inflight, writes, over, warehouse, mapping, probe_i, available_tables, tiers, timeout_count,
                   ga4_data, pageviews_updates, batch_i, total_updated, indiv_j,
                   updated_count, exc, calls, started>>

\* main.py:56-72: the suffixes get_available_ga4_tables(n) returns when the
\* partitions of the day offsets in exists are the ones get_table finds:
\* offset 0 (today) is probed first, a probe that raises adds nothing
RECURSIVE get_available_ga4_tables(_, _)
get_available_ga4_tables(n, exists) ==
    IF n = 0 THEN <<>>
    ELSE LET before == get_available_ga4_tables(n - 1, exists)
         IN IF (n - 1) \in exists THEN Append(before, n - 1) ELSE before

\* a faulty variant of tables_to_use: every partition found is queried
tables_to_use_all(available, days_back) == available

\* main.py:95: tables_to_use = available_tables[:days_back]
tables_to_use(available, days_back) == Take(available, days_back)

\* main.py:182: the list the Standard tier's handler passes to the Fallback tier
fallback_argument(available, days_back) == Take(available, days_back)

\* main.py:192: tables_to_use = available_tables[:max(3, GA4_DAYS_BACK)]
fallback_tables_to_use(argument, days_back) == Take(argument, Max(FallbackTables, days_back))

\* main.py:271: available_tables[0], the one partition of the Minimal tier
minimal_table(argument) == Take(argument, 1)

\* main.py:84-88: the fetcher's budget check
FetchStart ==
    /\ pc = "fetch"
    /\ started' = [started EXCEPT !["fetch"] = Clock]
    /\ calls' = Append(calls, Check)
    /\ IF check_timeout THEN Raise("TimeoutError")
       ELSE pc' = "probe" /\ exc' = exc
    /\ probe_i' = 0
    /\ available_tables' = <<>>
    /\ UNCHANGED <<uvars, tvars, prev_data, inflight, writes, over, warehouse, mapping, tiers, timeout_count,
                   ga4_data, pageviews_updates, batch_i, total_updated, indiv_j,
                   updated_count, result, returned>>

\* main.py:59-70: one get_table probe of get_available_ga4_tables(days_back + 2)
Probe ==
    /\ pc = "probe"
    /\ probe_i < GA4_DAYS_BACK + 2
    /\ calls' = Append(calls, "get_table")
    /\ \E exists \in BOOLEAN :
          available_tables' = IF exists THEN Append(available_tables, probe_i)
                              ELSE available_tables
    /\ probe_i' = probe_i + 1
    /\ UNCHANGED <<uvars, tvars, prev_data, inflight, writes, pc, over, warehouse, mapping, tiers, timeout_count,
                   ga4_data, pageviews_updates, batch_i, total_updated, indiv_j,
                   updated_count, exc, result, returned, started>>

\* main.py:90-100: no partition, no query
ProbeDone ==
    /\ pc = "probe"
    /\ probe_i = GA4_DAYS_BACK + 2
    /\ IF available_tables = <<>> \/ tables_to_use(available_tables, GA4_DAYS_BACK) = <<>>
       THEN ga4_data' = <<>> /\ pc' = "fetched"
       ELSE ga4_data' = ga4_data /\ pc' = "std_submit"
    /\ UNCHANGED <<uvars, tvars, prev_data, inflight, writes, over, warehouse, mapping, probe_i, available_tables, tiers, timeout_count,
                   pageviews_updates, batch_i, total_updated, indiv_j,
                   updated_count, exc, result, returned, calls, started>>

\* the tier attempts t, the last of them ended with outcome o
Outcome(t, o) == [t EXCEPT ![Len(t)].outcome = o]

\* a tier attempt begins
Attempt(tier, tables) == Append(tiers, [tier |-> tier, tables |-> tables, outcome |-> "running"])

\* the outcomes of a tier attempt that make the next tier run
Failures == {"error", "timeout"}

\* a faulty variant of StandardExcept: the Fallback tier is skipped
StandardExcept_skips(t, o) == tiers' = Outcome(t, o) /\ pc' = "min_query" /\ ga4_data' = ga4_data

\* main.py:178-182: any exception of the Standard tier leads to the Fallback tier
StandardExcept(t, o) == tiers' = Outcome(t, o) /\ pc' = "fb_submit" /\ ga4_data' = ga4_data

\* main.py:268-271: any exception of the Fallback tier leads to the Minimal tier
FallbackExcept(t, o) == tiers' = Outcome(t, o) /\ pc' = "min_query" /\ ga4_data' = ga4_data

\* a faulty variant of MinimalExcept: the exception is raised again
MinimalExcept_raises(t, o) ==
    tiers' = Outcome(t, o) /\ ga4_data' = <<>> /\ Raise("Exception")

\* main.py:335-337: any exception of the Minimal tier gives an empty list
MinimalExcept(t, o) ==
    tiers' = Outcome(t, o) /\ ga4_data' = <<>> /\ pc' = "fetched" /\ exc' = exc

\* a faulty variant of TierReturns: an empty result is taken for a failure
TierReturns_degrades(t, rows) ==
    IF rows = <<>>
    THEN tiers' = Outcome(t, "ok") /\ ga4_data' = rows
         /\ pc' = IF t[Len(t)].tier = "Standard" THEN "fb_submit" ELSE "min_query"
    ELSE tiers' = Outcome(t, "ok") /\ ga4_data' = rows /\ pc' = "fetched"

\* main.py:162-176, 252-266, 319-333: the rows of a finished query are returned
TierReturns(t, rows) == tiers' = Outcome(t, "ok") /\ ga4_data' = rows /\ pc' = "fetched"

\* a faulty variant of cancel: the job is left running, no request is made
cancel_omitted(job) == calls' = calls

\* main.py:155, 246: query_job.cancel(), the request to stop the tier's job
cancel(job) == calls' = Append(calls, job)

\* main.py:140-149: the Standard tier's query is submitted
StdSubmit ==
    /\ pc = "std_submit"
    /\ calls' = Append(calls, "standard")
    /\ LET t == Attempt("Standard", tables_to_use(available_tables, GA4_DAYS_BACK))
       IN \E ok \in BOOLEAN :
             IF ok THEN tiers' = t /\ pc' = "std_poll" /\ ga4_data' = ga4_data
             ELSE StandardExcept(t, "error")
    /\ inflight' = IF pc' = "std_poll" THEN inflight \union {Query("standard")} ELSE inflight
    /\ timeout_count' = 0
    /\ UNCHANGED <<uvars, tvars, prev_data, writes, over, warehouse, mapping, probe_i, available_tables,
                   pageviews_updates, batch_i, total_updated, indiv_j,
                   updated_count, exc, result, returned, started>>

\* main.py:153-160: one turn of the Standard tier's polling loop: the job is
\* DONE (the loop is left, and with it the counter's last use), or the ceiling
\* is passed (cancel, TimeoutError), or sleep(6)
StdPoll ==
    /\ pc = "std_poll"
    /\ \E done \in BOOLEAN :
          IF done
          THEN pc' = "std_result" /\ timeout_count' = 0 /\ UNCHANGED <<tiers, ga4_data, calls>>
          ELSE IF timeout_count > StandardPollCeiling
          THEN /\ cancel("cancel:standard")
               /\ StandardExcept(tiers, "timeout")
               /\ timeout_count' = timeout_count
          ELSE /\ timeout_count' = timeout_count + 1
               /\ UNCHANGED <<pc, tiers, ga4_data, calls>>
    /\ inflight' = IF pc' = pc THEN inflight ELSE inflight \ {Query("standard"), Query("fallback")}
    /\ UNCHANGED <<uvars, tvars, prev_data, writes, over, warehouse, mapping, probe_i, available_tables,
                   pageviews_updates, batch_i, total_updated, indiv_j,
                   updated_count, exc, result, returned, started>>

\* main.py:162-176: query_job.result(timeout=30) and the rows
StdResult ==
    /\ pc = "std_result"
    /\ calls' = Append(calls, "standard:result")
    /\ \/ \E rows \in RawResults : TierReturns(tiers, rows)
       \/ \E o \in Failures : StandardExcept(tiers, o)
    /\ UNCHANGED <<uvars, tvars, prev_data, inflight, writes, over, warehouse, mapping, probe_i, available_tables, timeout_count,
                   pageviews_updates, batch_i, total_updated, indiv_j,
                   updated_count, exc, result, returned, started>>

\* main.py:182: the list the Fallback tier is called with
FallbackArgument == fallback_argument(available_tables, GA4_DAYS_BACK)

\* main.py:188-240: the Fallback tier's query is submitted
FbSubmit ==
    /\ pc = "fb_submit"
    /\ IF FallbackArgument = <<>>
       THEN ga4_data' = <<>> /\ pc' = "fetched" /\ UNCHANGED <<tiers, calls>>
       ELSE /\ calls' = Append(calls, "fallback")
            /\ LET t == Attempt("Fallback",
                                fallback_tables_to_use(FallbackArgument, GA4_DAYS_BACK))
               IN \E ok \in BOOLEAN :
                     IF ok THEN tiers' = t /\ pc' = "fb_poll" /\ ga4_data' = ga4_data
                     ELSE FallbackExcept(t, "error")
    /\ inflight' = IF pc' = "fb_poll" THEN inflight \union {Query("fallback")} ELSE inflight
    /\ timeout_count' = 0
    /\ UNCHANGED <<uvars, tvars, prev_data, writes, over, warehouse, mapping, probe_i, available_tables,
                   pageviews_updates, batch_i, total_updated, indiv_j,
                   updated_count, exc, result, returned, started>>

\* main.py:243-250: one turn of the Fallback tier's polling loop
FbPoll ==
    /\ pc = "fb_poll"
    /\ \E done \in BOOLEAN :
          IF done
          THEN pc' = "fb_result" /\ timeout_count' = 0 /\ UNCHANGED <<tiers, ga4_data, calls>>
          ELSE IF timeout_count > FallbackPollCeiling
          THEN /\ cancel("cancel:fallback")
               /\ FallbackExcept(tiers, "timeout")
               /\ timeout_count' = timeout_count
          ELSE /\ timeout_count' = timeout_count + 1
               /\ UNCHANGED <<pc, tiers, ga4_data, calls>>
    /\ inflight' = IF pc' = pc THEN inflight ELSE inflight \ {Query("standard"), Query("fallback")}
    /\ UNCHANGED <<uvars, tvars, prev_data, writes, over, warehouse, mapping, probe_i, available_tables,
                   pageviews_updates, batch_i, total_updated, indiv_j,
                   updated_count, exc, result, returned, started>>

\* main.py:252-266: query_job.result(timeout=30) and the rows
FbResult ==
    /\ pc = "fb_result"
    /\ calls' = Append(calls, "fallback:result")
    /\ \/ \E rows \in RawResults : TierReturns(tiers, rows)
       \/ \E o \in Failures : FallbackExcept(tiers, o)
    /\ UNCHANGED <<uvars, tvars, prev_data, inflight, writes, over, warehouse, mapping, probe_i, available_tables, timeout_count,
                   pageviews_updates, batch_i, total_updated, indiv_j,
                   updated_count, exc, result, returned, started>>

\* main.py:271-337: the Minimal tier on available_tables[0]: the query and
\* query_job.result(timeout=45) in one blocking call
MinQuery ==
    /\ pc = "min_query"
    /\ calls' = Append(calls, "minimal")
    /\ LET t == Attempt("Minimal", minimal_table(FallbackArgument))
       IN \/ \E rows \in RawResults : TierReturns(t, rows) /\ exc' = exc
          \/ \E o \in Failures : MinimalExcept(t, o)
    /\ Abandon(tiers'[Len(tiers')].outcome, Query("minimal"))
    /\ UNCHANGED <<uvars, tvars, prev_data, writes, over, warehouse, mapping, probe_i, available_tables, timeout_count,
                   pageviews_updates, batch_i, total_updated, indiv_j,
                   updated_count, result, returned, started>>

\* main.py:722-724: the test of the fetcher's result; the fetcher has
\* returned, and with it its local available_tables
AfterFetch ==
    /\ pc = "fetched"
    /\ IF ga4_data = <<>> THEN Failed("No GA4 data")
       ELSE pc' = "match" /\ UNCHANGED <<result, returned>>
    /\ available_tables' = <<>>
    /\ UNCHANGED <<uvars, tvars, prev_data, inflight, writes, over, warehouse, mapping, probe_i, tiers, timeout_count,
                   ga4_data, pageviews_updates, batch_i, total_updated, indiv_j,
                   updated_count, exc, calls, started>>

\* main.py:527-600: the reconciler: budget check, aggregation, matching
Match ==
    /\ pc = "match"
    /\ started' = [started EXCEPT !["reconcile"] = Clock]
    /\ calls' = Append(calls, Check)
    /\ IF check_timeout
       THEN Raise("TimeoutError") /\ UNCHANGED pageviews_updates
       ELSE IF MatchRaises(ga4_data, mapping)
       THEN Raise("Exception") /\ UNCHANGED pageviews_updates
       ELSE /\ pageviews_updates' = MatchAndAggregate(ga4_data, mapping)
            /\ pc' = "apply"
            /\ exc' = exc
    /\ UNCHANGED <<uvars, tvars, prev_data, inflight, writes, over, warehouse, mapping, probe_i, available_tables, tiers, timeout_count,
                   ga4_data, batch_i, total_updated, indiv_j,
                   updated_count, result, returned>>

\* a faulty variant of ApplyStart: the result of the budget check is not used
ApplyStart_unchecked ==
    /\ pc = "apply"
    /\ started' = [started EXCEPT !["apply"] = Clock]
    /\ IF pageviews_updates # <<>>
       THEN /\ calls' = Append(calls, Check)
            /\ pc' = "bulk" /\ exc' = exc
       ELSE pc' = "finish" /\ UNCHANGED <<calls, exc>>
    /\ batch_i' = 0
    /\ total_updated' = 0
    /\ UNCHANGED <<uvars, tvars, prev_data, inflight, writes, over, warehouse, mapping, probe_i, available_tables, tiers, timeout_count,
                   ga4_data, pageviews_updates, indiv_j,
                   updated_count, result, returned>>

\* main.py:730-733 and 604-613: with deltas, the dispatcher's budget check;
\* without, nothing is called
ApplyStart ==
    /\ pc = "apply"
    /\ started' = [started EXCEPT !["apply"] = Clock]
    /\ IF pageviews_updates # <<>>
       THEN /\ calls' = Append(calls, Check)
            /\ IF check_timeout THEN Raise("TimeoutError")
               ELSE pc' = "bulk" /\ exc' = exc
       ELSE pc' = "finish" /\ UNCHANGED <<calls, exc>>
    /\ batch_i' = 0
    /\ total_updated' = 0
    /\ UNCHANGED <<uvars, tvars, prev_data, inflight, writes, over, warehouse, mapping, probe_i, available_tables, tiers, timeout_count,
                   ga4_data, pageviews_updates, indiv_j,
                   updated_count, result, returned>>

\* a faulty variant of Batch: a batch runs one delta into the next batch
Batch_overlapping ==
    SubSeq(pageviews_updates, batch_i + 1, Min(batch_i + BatchSize + 1, Len(pageviews_updates)))

\* main.py:616: pageviews_updates[i:i+batch_size]
Batch == SubSeq(pageviews_updates, batch_i + 1, Min(batch_i + BatchSize, Len(pageviews_updates)))

\* main.py:624-628, 691: the article ids an update statement names
Ids(deltas) == [i \in DOMAIN deltas |-> deltas[i].article_id]

\* an update statement has returned (ok) or raised
Statement(stmt, deltas, ok) == Append(writes, [stmt |-> stmt, ids |-> Ids(deltas), ok |-> ok])

\* main.py:618-669: one bulk statement; when it fails, the batch is handed to
\* update_pageviews_individual_optimized
Bulk ==
    /\ pc = "bulk"
    /\ batch_i < Len(pageviews_updates)
    /\ calls' = Append(calls, "bulk")
    /\ \E o \in Returns :
          /\ Abandon(o, Job("bulk", batch_i + 1, batch_i + Len(Batch)))
          /\ writes' = Statement("bulk", Batch, o = "ok")
          /\ IF o = "ok"
             THEN /\ warehouse' = [warehouse EXCEPT !.articles = ApplyUpdates(@, Batch)]
                  /\ total_updated' = total_updated + Len(Batch)
                  /\ batch_i' = batch_i + BatchSize
                  /\ UNCHANGED <<pc, indiv_j, updated_count>>
             ELSE /\ pc' = "indiv"
                  /\ indiv_j' = 1
                  /\ updated_count' = 0
                  /\ UNCHANGED <<warehouse, total_updated, batch_i>>
    /\ UNCHANGED <<uvars, tvars, prev_data, over, mapping, probe_i, available_tables, tiers, timeout_count,
                   ga4_data, pageviews_updates, exc, result, returned, started>>

\* main.py:615, 671: the batches are exhausted
BulkDone ==
    /\ pc = "bulk"
    /\ batch_i >= Len(pageviews_updates)
    /\ pc' = "finish"
    /\ UNCHANGED <<uvars, tvars, prev_data, inflight, writes, over, warehouse, mapping, probe_i, available_tables, tiers, timeout_count,
                   ga4_data, pageviews_updates, batch_i, total_updated, indiv_j,
                   updated_count, exc, result, returned, calls, started>>

\* a faulty variant of IndividualReturns: the batches that follow are dropped
IndividualReturns_stops ==
    /\ total_updated' = total_updated + Len(Batch)
    /\ batch_i' = batch_i + BatchSize
    /\ indiv_j' = 1
    /\ updated_count' = 0
    /\ pc' = "finish"

\* main.py:668-669: update_pageviews_individual_optimized has returned, and
\* with it its locals
IndividualReturns ==
    /\ total_updated' = total_updated + Len(Batch)
    /\ batch_i' = batch_i + BatchSize
    /\ indiv_j' = 1
    /\ updated_count' = 0
    /\ pc' = "bulk"

\* main.py:677-701: one turn of the individual loop: budget check (break when
\* over), then one update statement, skipped when it fails
Individual ==
    /\ pc = "indiv"
    /\ indiv_j <= Len(Batch)
    /\ IF check_timeout
       THEN /\ calls' = Append(calls, Check)
            /\ IndividualReturns
            /\ UNCHANGED <<warehouse, writes, inflight>>
       ELSE /\ calls' = calls \o <<Check, "individual">>
            /\ \E o \in Returns :
                  /\ Abandon(o, Job("individual", batch_i + indiv_j, batch_i + indiv_j))
                  /\ writes' = Statement("individual", <<Batch[indiv_j]>>, o = "ok")
                  /\ IF o = "ok"
                     THEN /\ warehouse' = [warehouse EXCEPT
                                              !.articles = ApplyUpdates(@, <<Batch[indiv_j]>>)]
                          /\ updated_count' = updated_count + 1
                     ELSE UNCHANGED <<warehouse, updated_count>>
            /\ indiv_j' = indiv_j + 1
            /\ UNCHANGED <<pc, total_updated, batch_i>>
    /\ UNCHANGED <<uvars, tvars, prev_data, over, mapping, probe_i, available_tables, tiers, timeout_count,
                   ga4_data, pageviews_updates, exc, result, returned, started>>

\* main.py:677, 703: the individual loop is exhausted
IndividualDone ==
    /\ pc = "indiv"
    /\ indiv_j > Len(Batch)
    /\ IndividualReturns
    /\ UNCHANGED <<uvars, tvars, prev_data, inflight, writes, over, warehouse, mapping, probe_i, available_tables, tiers, timeout_count,
                   ga4_data, pageviews_updates,
                   exc, result, returned, calls, started>>

\* main.py:735-744: return {'status': 'success', ...}
Finish ==
    /\ pc = "finish"
    /\ result' = [status |-> "success",
                  total_ga4_records |-> Len(ga4_data),
                  mapped_articles |-> Cardinality(DOMAIN mapping),
                  updated_records |-> Len(pageviews_updates),
                  execution_time_seconds |-> Clock]
    /\ returned' = returned + 1
    /\ pc' = "done"
    /\ UNCHANGED <<uvars, tvars, prev_data, inflight, writes, over, warehouse, mapping, probe_i, available_tables, tiers, timeout_count,
                   ga4_data, pageviews_updates, batch_i, total_updated, indiv_j,
                   updated_count, exc, calls, started>>

\* a job the client stopped waiting for ends remotely; an update statement
\* has taken effect, or has failed
RemoteEnds ==
    /\ \E job \in inflight :
          /\ job.stmt \notin {"standard", "fallback"}
          /\ inflight' = inflight \ {job}
          /\ \E effect \in BOOLEAN :
                warehouse' = IF effect
                             THEN [warehouse EXCEPT
                                      !.articles = ApplyUpdates(@, SubSeq(pageviews_updates,
                                                                          job.from, job.to))]
                             ELSE warehouse
    /\ UNCHANGED <<uvars, tvars, prev_data, writes, pc, over, mapping, probe_i, available_tables,
                   tiers, timeout_count, ga4_data, pageviews_updates, batch_i, total_updated,
                   indiv_j, updated_count, exc, result, returned, calls, started>>

\* a faulty variant of Except: only TimeoutError is caught
Except_timeout_only ==
    /\ pc = "except"
    /\ result' = IF exc = "TimeoutError"
                 THEN [status |-> "timeout", error |-> exc, execution_time_seconds |-> Clock]
                 ELSE [status |-> "escaped"]
    /\ returned' = IF exc = "TimeoutError" THEN returned + 1 ELSE returned
    /\ pc' = "done"
    /\ exc' = IF exc = "TimeoutError" THEN "none" ELSE exc
    /\ UNCHANGED <<uvars, tvars, prev_data, inflight, writes, over, warehouse, mapping, probe_i, available_tables, tiers, timeout_count,
                   ga4_data, pageviews_updates, batch_i, total_updated, indiv_j,
                   updated_count, calls, started>>

\* main.py:746-762: except TimeoutError -> 'timeout'; except Exception -> 'error'
Except ==
    /\ pc = "except"
    /\ result' = [status |-> IF exc = "TimeoutError" THEN "timeout" ELSE "error",
                  error |-> exc,
                  execution_time_seconds |-> Clock]
    /\ returned' = returned + 1
    /\ pc' = "done"
    /\ exc' = "none"
    /\ UNCHANGED <<uvars, tvars, prev_data, inflight, writes, over, warehouse, mapping, probe_i, available_tables, tiers, timeout_count,
                   ga4_data, pageviews_updates, batch_i, total_updated, indiv_j,
                   updated_count, calls, started>>

Next ==
    \/ ClockExceeds
    \/ LoadStart \/ CountCourses \/ CountArticles \/ BasicJoin \/ Join \/ DebugQuery
    \/ AfterLoad
    \/ FetchStart \/ Probe \/ ProbeDone
    \/ StdSubmit \/ StdPoll \/ StdResult
    \/ FbSubmit \/ FbPoll \/ FbResult
    \/ MinQuery
    \/ AfterFetch
    \/ Match
    \/ ApplyStart \/ Bulk \/ BulkDone \/ Individual \/ IndividualDone
    \/ Finish
    \/ Except
    \/ RemoteEnds

Spec == Init /\ [][Next]_vars

\* the run is sequential code: a step that can be taken is taken
FairSpec == Spec /\ WF_vars(Next)

----------------------------------------------------------------------------
(* A run that follows an earlier run *)

\* main.py:712-731: the content warehouse w after a run whose join returned
\* rows, that reconciled the raw rows, and whose update statements all
\* succeeded; w itself when that run ended before it wrote (no mapping, or an
\* exception in the reconciler)
AfterRun(w, rows, raw) ==
    LET m == BuildMapping(rows)
    IN IF DOMAIN m = {} \/ MatchRaises(raw, m) THEN w
       ELSE [w EXCEPT !.articles = ApplyUpdates(@, MatchAndAggregate(raw, m))]

\* the raw rows that run reconciled
RowsOfRun(rows, raw) ==
    LET m == BuildMapping(rows)
    IN IF DOMAIN m = {} \/ MatchRaises(raw, m) THEN <<>> ELSE raw

\* the constructor has set start_time for a run over the warehouse an earlier
\* run has left
InitRerun ==
    /\ UrlIdle
    /\ NoTrigger
    /\ pc = "load"
    /\ over = FALSE
    /\ \E w \in Warehouses, raw \in RawResults \ {<<>>} :
          \E rows \in RowOrders(JoinRows(w.articles)) :
             /\ warehouse = AfterRun(w, rows, raw)
             /\ prev_data = RowsOfRun(rows, raw)
    /\ mapping = EmptyMapping
    /\ inflight = {}
    /\ probe_i = 0
    /\ available_tables = <<>>
    /\ tiers = <<>>
    /\ timeout_count = 0
    /\ ga4_data = <<>>
    /\ pageviews_updates = <<>>
    /\ batch_i = 0
    /\ total_updated = 0
    /\ indiv_j = 1
    /\ updated_count = 0
    /\ exc = "none"
    /\ result = [status |-> "none"]
    /\ returned = 0
    /\ calls = <<>>
    /\ started = [s \in Stages |-> "no"]
    /\ writes = <<>>

SpecRerun == InitRerun /\ [][Next]_vars

----------------------------------------------------------------------------
(* The entry points: ga4_sync_handler (HTTP) and ga4_sync_scheduler (event) *)

\* a daysBack value a request may carry, other than the configured one
OverrideDays == GA4_DAYS_BACK + 1

\* the triggers: an HTTP request without and with a look-back override, and a
\* scheduler event
Requests ==
    { [kind |-> "http"],
      [kind |-> "http", daysBack |-> OverrideDays],
      [kind |-> "scheduler"] }

\* the entry point has been invoked; GA4DataSync() is still to be constructed
TriggerInit ==
    /\ UrlIdle
    /\ request \in Requests
    /\ h_pc = "request"
    /\ response = [kind |-> "none"]
    /\ pc = "new"
    /\ over = FALSE
    /\ warehouse \in Warehouses
    /\ mapping = EmptyMapping
    /\ inflight = {}
    /\ probe_i = 0
    /\ available_tables = <<>>
    /\ tiers = <<>>
    /\ timeout_count = 0
    /\ ga4_data = <<>>
    /\ pageviews_updates = <<>>
    /\ batch_i = 0
    /\ total_updated = 0
    /\ indiv_j = 1
    /\ updated_count = 0
    /\ exc = "none"
    /\ result = [status |-> "none"]
    /\ returned = 0
    /\ calls = <<>>
    /\ started = [s \in Stages |-> "no"]
    /\ writes = <<>>
    /\ prev_data = <<>>

\* main.py:776-788: the HTTP handler's except clauses; main.py:799-802: the
\* scheduler's except clause logs and returns None
HandlerExcept(e) ==
    IF request.kind = "scheduler" THEN [kind |-> "returned"]
    ELSE IF e = "TimeoutError"
    THEN [kind |-> "returned", statusCode |-> 408, body |-> [error |-> "Request timeout"]]
    ELSE [kind |-> "returned", statusCode |-> 500, body |-> [error |-> e]]

\* main.py:768, 794: GA4DataSync() inside the entry point's try: the clients
\* are created and start_time is set, or the constructor raises
Construct ==
    /\ h_pc = "request"
    /\ \E outcome \in {"ok", "Exception", "TimeoutError"} :
          IF outcome = "ok"
          THEN h_pc' = "running" /\ pc' = "load" /\ response' = response
          ELSE h_pc' = "responded" /\ pc' = pc /\ response' = HandlerExcept(outcome)
    /\ UNCHANGED <<uvars, request, over, warehouse, mapping, probe_i, available_tables, tiers,
                   timeout_count, ga4_data, pageviews_updates, batch_i, total_updated, indiv_j,
                   updated_count, exc, result, returned, calls, started, writes, prev_data, inflight>>

\* a faulty variant of HttpBody: only a successful run is answered 200
HttpBody_by_status(r) ==
    [kind |-> "returned", statusCode |-> IF r.status = "success" THEN 200 ELSE 500, body |-> r]

\* main.py:771-774: {'statusCode': 200, 'body': result}
HttpBody(r) == [kind |-> "returned", statusCode |-> 200, body |-> r]

\* main.py:769-774: sync_pageviews_optimized() has returned to the HTTP handler.
\* The request is not read: the run has used GA4_DAYS_BACK (main.py:720).
HttpReturn ==
    /\ h_pc = "running"
    /\ request.kind = "http"
    /\ pc = "done"
    /\ response' = HttpBody(result)
    /\ h_pc' = "responded"
    /\ UNCHANGED <<uvars, pvars, request>>

\* main.py:795-797: sync_pageviews_optimized() has returned to the scheduler
\* handler, which logs the result and returns None
SchedulerReturn ==
    /\ h_pc = "running"
    /\ request.kind = "scheduler"
    /\ pc = "done"
    /\ response' = [kind |-> "returned"]
    /\ h_pc' = "responded"
    /\ UNCHANGED <<uvars, pvars, request>>

TriggerNext == Construct \/ Next \/ HttpReturn \/ SchedulerReturn

SpecTrigger == TriggerInit /\ [][TriggerNext]_vars

----------------------------------------------------------------------------
(* The URL normaliser and the key builder applied to bounded inputs *)

UrlPrefixes ==
    { <<>>,
      <<"/", "/", ContentHost>>,
      <<"https:", "/", "/", ContentHost>>,
      <<"https:", "/", "/", "other.example">> }

PathChars == {"a", "/", "column"}
SuffixChars == {"/", "?", "#"}

\* raw page_location values (none starts with whitespace): a prefix, then up
\* to MaxUrlLen path characters, then up to MaxSuffixLen characters among
\* which the query and fragment marks
RawUrls ==
    { p \o t \o q : p \in UrlPrefixes,
                    t \in SeqsUpTo(PathChars, MaxUrlLen),
                    q \in SeqsUpTo(SuffixChars, MaxSuffixLen) }

\* the join query keeps rows with slug != '' and link != '' (main.py:425-430)
SlugChars == {"a", "/"}
LinkChars == {"a", "/", "?", "#", " "}
Slugs == SeqsUpTo(SlugChars, MaxSlugLen) \ {<<>>}
Links == SeqsUpTo(LinkChars, MaxLinkLen) \ {<<>>}

\* the public URL of the article of a joined row: https://<host>/<slug>/column/<link>
ArticleUrl(row) == OnHost(row.course_slug \o <<"/", "column", "/">> \o row.article_link)

\* no pipeline run takes place during the URL computation
PipelineIdle ==
    /\ NoTrigger
    /\ pc = "done"
    /\ over = FALSE
    /\ warehouse = [courses |-> 0, articles |-> <<>>]
    /\ mapping = EmptyMapping
    /\ inflight = {}
    /\ probe_i = 0
    /\ available_tables = <<>>
    /\ tiers = <<>>
    /\ timeout_count = 0
    /\ ga4_data = <<>>
    /\ pageviews_updates = <<>>
    /\ batch_i = 0
    /\ total_updated = 0
    /\ indiv_j = 1
    /\ updated_count = 0
    /\ exc = "none"
    /\ result = [status |-> "none"]
    /\ returned = 0
    /\ calls = <<>>
    /\ started = [s \in Stages |-> "no"]
    /\ writes = <<>>
    /\ prev_data = <<>>

UrlInit ==
    /\ PipelineIdle
    /\ u_out = [path |-> None]
    /\ \/ u_pc = "url" /\ u_in \in RawUrls
       \/ u_pc = "row" /\ u_in \in [course_slug : Slugs, article_link : Links]

\* normalize_ga4_url applied to a raw URL
Normalize ==
    /\ u_pc = "url"
    /\ u_pc' = "normalized"
    /\ u_out' = [path |-> normalize_ga4_url(u_in)]
    /\ UNCHANGED <<u_in, pvars, tvars>>

\* normalize_ga4_url applied to its own output, bare and back on the content host
Renormalize ==
    /\ u_pc = "normalized"
    /\ u_out.path # None
    /\ u_pc' = "renormalized"
    /\ u_out' = [path |-> u_out.path,
                 again |-> normalize_ga4_url(u_out.path),
                 rehosted |-> normalize_ga4_url(OnHost(u_out.path))]
    /\ UNCHANGED <<u_in, pvars, tvars>>

\* the loader's key for a joined row, and the normalised URL of its article
BuildKey ==
    /\ u_pc = "row"
    /\ u_pc' = "keyed"
    /\ u_out' = [pattern |-> Pattern(u_in.course_slug, u_in.article_link),
                 event |-> normalize_ga4_url(ArticleUrl(u_in))]
    /\ UNCHANGED <<u_in, pvars, tvars>>

UrlNext == Normalize \/ Renormalize \/ BuildKey

SpecUrl == UrlInit /\ [][UrlNext]_vars

\* ---------------------------------------------------------------------------
\* The partitions each tier queries, for every look-back window up to
\* MaxDaysBack and every set of partitions that exist
\* ---------------------------------------------------------------------------

\* a look-back window (GA4_DAYS_BACK, main.py:24) and the day offsets whose
\* partition exists, among the days_back + 2 that are probed
Windows ==
    UNION {[days_back : {d}, exists : SUBSET (0 .. d + 1)] : d \in 1 .. MaxDaysBack}

TablesInit ==
    /\ PipelineIdle
    /\ u_pc = "window"
    /\ u_in \in Windows
    /\ u_out = [path |-> None]

\* main.py:88: available_tables = self.get_available_ga4_tables(days_back + 2)
ProbeWindow ==
    /\ u_pc = "window"
    /\ u_pc' = "probed"
    /\ u_out' = [available_tables |-> get_available_ga4_tables(u_in.days_back + 2, u_in.exists)]
    /\ UNCHANGED <<u_in, pvars, tvars>>

\* main.py:95, 182, 192, 271: the partitions of the three tiers' queries
SelectTables ==
    /\ u_pc = "probed"
    /\ u_pc' = "selected"
    /\ LET available == u_out.available_tables
           argument == fallback_argument(available, u_in.days_back)
       IN u_out' = [available_tables |-> available,
                    standard |-> tables_to_use(available, u_in.days_back),
                    fallback |-> fallback_tables_to_use(argument, u_in.days_back),
                    minimal |-> minimal_table(argument)]
    /\ UNCHANGED <<u_in, pvars, tvars>>

TablesNext == ProbeWindow \/ SelectTables

SpecTables == TablesInit /\ [][TablesNext]_vars

\* ---------------------------------------------------------------------------
\* Update statements applied to the articles table more than once
\* ---------------------------------------------------------------------------

\* the four metric fields of an articles row
Metrics(a) ==
    [pageviews |-> a.pageviews, organic_sessions |-> a.organic_sessions,
     engaged_sessions |-> a.engaged_sessions, avg_engagement_time |-> a.avg_engagement_time]

\* metric values a row may hold when an update statement reaches it
StoredMetrics ==
    [pageviews : 0 .. MaxStored, organic_sessions : 0 .. MaxStored,
     engaged_sessions : 0 .. MaxStored, avg_engagement_time : {0, 10000}]

Stored(articles, m) ==
    [i \in DOMAIN articles |->
        [articles[i] EXCEPT !.pageviews = m.pageviews,
                            !.organic_sessions = m.organic_sessions,
                            !.engaged_sessions = m.engaged_sessions,
                            !.avg_engagement_time = m.avg_engagement_time]]

\* the delta lists the reconciler hands to the dispatcher, with their tables
DeltaLists ==
    {[articles |-> w.articles, deltas |-> MatchAndAggregate(raw, BuildMapping(rows))] :
        <<w, raw, rows>> \in
            {<<w, raw, rows>> \in
                UNION {{<<w, raw, rows>> : rows \in RowOrders(JoinRows(w.articles))} :
                          <<w, raw>> \in Warehouses \X RawResults} :
                /\ ~MatchRaises(raw, BuildMapping(rows))
                /\ MatchAndAggregate(raw, BuildMapping(rows)) # <<>>}}

WriteInit ==
    /\ PipelineIdle
    /\ u_pc = "deltas"
    /\ \E l \in DeltaLists, m \in StoredMetrics :
          u_in = [articles |-> Stored(l.articles, m), deltas |-> l.deltas]
    /\ u_out = [path |-> None]

\* main.py:634-660: the bulk statement for the deltas takes effect
WriteOnce ==
    /\ u_pc = "deltas"
    /\ u_pc' = "once"
    /\ u_out' = [once |-> ApplyUpdates(u_in.articles, u_in.deltas)]
    /\ UNCHANGED <<u_in, pvars, tvars>>

\* main.py:665-668, 683-697: a second statement for deltas already written
\* takes effect: the bulk statement again (k = 0), or the individual
\* statement of delta k
WriteAgain ==
    /\ u_pc = "once"
    /\ u_pc' = "again"
    /\ \E k \in 0 .. Len(u_in.deltas) :
          LET second == IF k = 0 THEN u_in.deltas ELSE <<u_in.deltas[k]>>
          IN u_out' = [once |-> u_out.once,
                       second |-> k,
                       again |-> ApplyUpdates(u_out.once, second)]
    /\ UNCHANGED <<u_in, pvars, tvars>>

WriteNext == WriteOnce \/ WriteAgain

SpecWrite == WriteInit /\ [][WriteNext]_vars

----------------------------------------------------------------------------
(* Properties *)

\* the remote calls of each stage, as they appear in the history
StageCalls ==
    [s \in Stages |->
        CASE s = "load" -> {"courses_count", "articles_count", "basic_join", "join", "debug"}
          [] s = "fetch" -> {"get_table", "standard", "standard:result", "cancel:standard",
                             "fallback", "fallback:result", "cancel:fallback", "minimal"}
          [] s = "reconcile" -> {}
          [] s = "apply" -> {"bulk", "individual"}]

RemoteCalls == UNION {StageCalls[s] : s \in Stages}

Issued(C) == \E i \in DOMAIN calls : calls[i] \in C

AllTiersFailed == Len(tiers) = 3 /\ \A i \in DOMAIN tiers : tiers[i].outcome \in Failures

TierOrder == <<"Standard", "Fallback", "Minimal">>

\* the loader has returned (it passed its budget check, after which it always returns)
LoaderReturned == pc = "done" /\ started["load"] = "within"

\* the fetcher has returned its list
FetcherReturned ==
    /\ pc = "done"
    /\ started["fetch"] = "within"
    /\ \/ started["reconcile"] # "no"
       \/ (result.status = "failed" /\ result.error = "No GA4 data")

\* C1: when the loader returns an empty mapping the run ends with status
\* failed and mappedArticles = 0 in its result, and the fetcher has issued no
\* partition probe and no analytics query.
C1_EmptyMappingFails ==
    (LoaderReturned /\ DOMAIN mapping = {}) =>
        /\ result.status = "failed"
        /\ "mapped_articles" \in DOMAIN result
        /\ result.mapped_articles = 0
        /\ ~Issued(StageCalls["fetch"])

\* C2: when the Standard, Fallback and Minimal tiers have all failed (by
\* error or by timeout) the fetcher returns an empty list, no exception is
\* raised, and the run ends with status failed.
C2_AllTiersFailed ==
    AllTiersFailed =>
        /\ ga4_data = <<>>
        /\ exc = "none"
        /\ pc \in {"fetched", "done"}
        /\ pc = "done" => result.status = "failed" /\ returned = 1

C2_Witness ==
    /\ pc = "done"
    /\ AllTiersFailed
    /\ tiers[2].outcome = "timeout"
    /\ result.status = "failed"

\* C3: the tier attempts of a run are a prefix of (Standard, Fallback,
\* Minimal), and every attempt but the last has failed, by error or timeout;
\* so no tier is attempted twice and none before its predecessor failed.
C3_TierOrder ==
    /\ Len(tiers) <= 3
    /\ \A i \in DOMAIN tiers : tiers[i].tier = TierOrder[i]
    /\ \A i \in 1..(Len(tiers) - 1) : tiers[i].outcome \in Failures

C3_Witness ==
    /\ Len(tiers) = 3
    /\ tiers[1].outcome = "timeout"
    /\ tiers[2].outcome = "error"
    /\ tiers[3].outcome = "ok"

C5_CheckAborts ==
    \A i \in DOMAIN calls :
        calls[i] = "check:over" =>
            /\ \A j \in (i + 1)..Len(calls) : calls[j] \notin RemoteCalls
            /\ pc = "done" => result.status = "timeout"

\* C6: a result whose status is timeout, failed or error carries the counts
\* known when the run stopped: the mapped articles once the loader has
\* returned, the raw records once the fetcher has returned, and the updated
\* records once the deltas are known.
C6_PartialCounts ==
    (pc = "done" /\ result.status \in {"timeout", "failed", "error"}) =>
        /\ LoaderReturned =>
              /\ "mapped_articles" \in DOMAIN result
              /\ result.mapped_articles = Cardinality(DOMAIN mapping)
        /\ FetcherReturned =>
              /\ "total_ga4_records" \in DOMAIN result
              /\ result.total_ga4_records = Len(ga4_data)
        /\ started["apply"] # "no" =>
              /\ "updated_records" \in DOMAIN result
              /\ result.updated_records <= Len(pageviews_updates)

\* C7: every run ends (pc = "done"), having returned exactly one result whose
\* status is success, timeout, error or failed, with no exception left
\* propagating; an exception that is not a TimeoutError gives status error.
C7_Terminates ==
    /\ <>(pc = "done")
    /\ [](pc = "done" =>
            /\ returned = 1
            /\ exc = "none"
            /\ result.status \in {"success", "timeout", "error", "failed"}
            /\ ("error" \in DOMAIN result /\ result.error = "Exception")
                  => result.status = "error")

C7_Witness == pc = "done" /\ result.status = "error" /\ returned = 1

C9_KeyMirrorsNormalize ==
    u_pc = "keyed" => u_out.pattern = u_out.event

\* C10: every key the loader builds ends with '/'.
C10_PatternEndsWithSlash ==
    u_pc = "keyed" => EndsWith(u_out.pattern, "/")

C10_Witness ==
    /\ u_pc = "keyed"
    /\ EndsWith(u_in.article_link, " ")
    /\ ~EndsWith(Strip(u_in.article_link, Whitespace), "/")
    /\ EndsWith(u_out.pattern, "/")

\* C11: no key the loader builds contains a query string ('?') or a fragment
\* ('#'), whatever slug and link the join query returned.
C11_PatternNoQueryFragment ==
    u_pc = "keyed" =>
        \A i \in DOMAIN u_out.pattern : u_out.pattern[i] \notin {"?", "#"}

\* C12: a run over the raw rows that the previous run reconciled and applied,
\* its mapping read from the warehouse that run left, produces no delta and
\* issues no update statement.  (The stored averages are rounded to four
\* decimals, which is within the 0.1 s tolerance; but of two articles with the
\* same key the join, which has no ORDER BY, may return the other one last.)
C12_RerunNoDelta ==
    (prev_data # <<>> /\ ga4_data = prev_data) =>
        /\ pageviews_updates = <<>>
        /\ ~Issued(StageCalls["apply"])
        /\ (pc = "done" /\ result.status = "success") => result.updated_records = 0

\* the raw rows whose URL normalizes to path
RowsAt(path) ==
    {i \in DOMAIN ga4_data : normalize_ga4_url(ga4_data[i].page_location) = path}

\* the sum of field f over the raw rows of the index set I
RECURSIVE Total(_, _)
Total(I, f) ==
    IF I = {} THEN 0
    ELSE LET i == CHOOSE i \in I : TRUE
         IN ga4_data[i][f] + Total(I \ {i}, f)

\* the keys of the mapping that at least one raw row normalizes to
MatchedPaths == {p \in DOMAIN mapping : RowsAt(p) # {}}

ReconcilerRaised == pc = "except" /\ exc = "Exception"

\* the reconciler has just returned its deltas, or has just raised
ReconcilerEnded == pc = "apply" \/ ReconcilerRaised

\* the aggregated metrics of a matched path differ from the stored ones: a
\* counter by any amount, or the average engagement time by more than 0.1 s
\* (the stored average is in units of 0.0001 s)
MaterialAt(p) ==
    LET sessions == Total(RowsAt(p), "total_sessions")
        msec == Total(RowsAt(p), "total_engagement_time_msec")
        cur == mapping[p].current_avg_engagement_time
    IN \/ mapping[p].current_pageviews # Total(RowsAt(p), "pageviews")
       \/ mapping[p].current_organic_sessions # Total(RowsAt(p), "organic_sessions")
       \/ mapping[p].current_engaged_sessions # Total(RowsAt(p), "engaged_sessions")
       \/ sessions > 0 /\ Abs(cur * sessions * 1000 - 10000 * msec) > 1000 * sessions * 1000
       \/ sessions = 0 /\ cur > 1000

EmittedFor(p) ==
    \E k \in DOMAIN pageviews_updates : pageviews_updates[k].article_id = mapping[p].article_id

\* C14: when the reconciler has ended, a matched path has a delta if and only
\* if a counter differs from the stored value or the average engagement time
\* differs by more than 0.1 s.
C14_DeltaIffMaterial ==
    ReconcilerEnded => \A p \in MatchedPaths : EmittedFor(p) <=> MaterialAt(p)

\* a raw row is matched: its URL normalizes to a key of the mapping
IsMatched(row) == normalize_ga4_url(row.page_location) \in DOMAIN mapping

\* C15: the raw rows whose URL fails normalization or normalizes to a path
\* that is no key of the mapping give no delta and raise no error: the deltas
\* are those of the matched rows alone, every delta belongs to a matched path,
\* and when the reconciler raises, it is on a matched path.
C15_UnmatchedSkipped ==
    /\ pc = "apply" =>
          /\ pageviews_updates = MatchAndAggregate(SelectSeq(ga4_data, IsMatched), mapping)
          /\ \A k \in DOMAIN pageviews_updates :
                \E p \in MatchedPaths : mapping[p].article_id = pageviews_updates[k].article_id
    /\ ReconcilerRaised =>
          \E p \in MatchedPaths : MaterialAt(p) /\ mapping[p].article_title = "null"

\* rows on another host and of a path that is no key, next to a row that gives a delta
C15_Witness ==
    /\ pc = "apply"
    /\ \E i \in DOMAIN ga4_data : normalize_ga4_url(ga4_data[i].page_location) = None
    /\ \E i \in DOMAIN ga4_data :
          /\ normalize_ga4_url(ga4_data[i].page_location) # None
          /\ ~IsMatched(ga4_data[i])
    /\ pageviews_updates # <<>>

\* the article ids of the bulk statements among the statements w, in order
RECURSIVE BulkIds(_)
BulkIds(w) ==
    IF w = <<>> THEN <<>>
    ELSE BulkIds(Front(w)) \o (IF Last(w).stmt = "bulk" THEN Last(w).ids ELSE <<>>)

\* the dispatcher has returned
Applied == pc \in {"finish", "done"} /\ writes # <<>>

\* statement k is a bulk statement that failed
FailedBulk(k) == writes[k].stmt = "bulk" /\ ~writes[k].ok

\* C16: when the dispatcher has returned, every failed bulk statement is
\* followed by one individual statement for each delta of its batch, in
\* order (whether or not the individual statements before it failed), and
\* every batch has had its bulk statement.
C16_IndividualFallback ==
    Applied =>
        /\ \A k \in DOMAIN writes :
              FailedBulk(k) =>
                  \A j \in DOMAIN writes[k].ids :
                      /\ k + j <= Len(writes)
                      /\ writes[k + j].stmt = "individual"
                      /\ writes[k + j].ids = <<writes[k].ids[j]>>
        /\ BulkIds(writes) = Ids(pageviews_updates)

\* the deltas whose article an update statement that succeeded has written
Succeeded ==
    {k \in DOMAIN pageviews_updates :
        \E w \in DOMAIN writes :
            writes[w].ok /\ pageviews_updates[k].article_id \in Range(writes[w].ids)}

\* C17: the dispatcher's total_updated, and the updated_records of the
\* result, are the number of deltas whose update statement succeeded.
C17_AppliedCount ==
    /\ pc = "finish" => total_updated = Cardinality(Succeeded)
    /\ (pc = "done" /\ result.status = "success") =>
          result.updated_records = Cardinality(Succeeded)

\* C18: once an update statement has been issued no exception propagates,
\* whichever statements fail: the dispatcher goes on, every batch has had its
\* bulk statement when it returns, and the run ends with status success.
C18_ApplyNeverRaises ==
    writes # <<>> =>
        /\ exc = "none"
        /\ pc \in {"bulk", "indiv", "finish", "done"}
        /\ pc \in {"finish", "done"} => BulkIds(writes) = Ids(pageviews_updates)
        /\ pc = "done" => result.status = "success"

\* the first batch's bulk statement and one of its individual statements
\* failed, and the second batch followed
C18_Witness ==
    /\ pc = "done"
    /\ Len(pageviews_updates) > BatchSize
    /\ Len(writes) >= 3
    /\ FailedBulk(1)
    /\ writes[2].stmt = "individual" /\ ~writes[2].ok
    /\ writes[Len(writes)].stmt = "bulk"
    /\ result.status = "success"

\* C19: the HTTP entry point answers 200 with the run's result as body for
\* every run that returned a result, whatever its status; it answers 500 only
\* when the constructor raised, before any run; and it always returns a
\* response: no entry point lets an exception reach its caller.
C19_HttpStatus ==
    /\ response.kind \in {"none", "returned"}
    /\ (h_pc = "running" /\ pc = "done") => returned = 1 /\ exc = "none"
    /\ (h_pc = "responded" /\ request.kind = "http") =>
          /\ pc = "done" => response = [kind |-> "returned", statusCode |-> 200, body |-> result]
          /\ response.statusCode = 200 => pc = "done"
          /\ response.statusCode = 500 => pc = "new" /\ returned = 0

\* a run that ended with status timeout, answered 200
C19_Witness ==
    /\ h_pc = "responded"
    /\ request.kind = "http"
    /\ response.statusCode = 200
    /\ response.body.status = "timeout"

\* the look-back window a trigger asks for
Window == IF "daysBack" \in DOMAIN request THEN request.daysBack ELSE GA4_DAYS_BACK

\* C20: a run triggered with a daysBack override uses it as look-back window,
\* a run triggered without uses the configured one: daysBack + 2 partitions
\* are probed, and no tier queries more than daysBack partitions.
C20_DaysBackOverride ==
    /\ pc \in {"std_submit", "fetched"} => probe_i = Window + 2
    /\ \A i \in DOMAIN tiers : Len(tiers[i].tables) <= Window

\* the poll loop of a tier was left on its ceiling in this step
StdAbandoned == pc = "std_poll" /\ pc' = "fb_submit"

FbAbandoned == pc = "fb_poll" /\ pc' = "min_query"

\* C22: whenever the Standard or the Fallback tier is abandoned because its
\* poll ceiling was exceeded, the cancel request for that tier's job is made
\* in that step, before the timeout is raised, and so it precedes the query
\* of the next tier in the order of the remote calls.
C22_CancelBeforeTimeout ==
    [][ /\ StdAbandoned => /\ calls' = Append(calls, "cancel:standard")
                           /\ tiers'[Len(tiers')].outcome = "timeout"
        /\ FbAbandoned => /\ calls' = Append(calls, "cancel:fallback")
                          /\ tiers'[Len(tiers')].outcome = "timeout"
        /\ (pc = "fb_submit" /\ timeout_count > StandardPollCeiling) =>
              /\ Last(calls) = "cancel:standard"
              /\ calls' \in {calls, Append(calls, "fallback")}
        /\ (pc = "min_query" /\ timeout_count > FallbackPollCeiling) =>
              /\ Last(calls) = "cancel:fallback"
              /\ calls' \in {calls, Append(calls, "minimal")}
      ]_vars

\* both ceilings were exceeded; the Minimal tier's query is about to be made
C22_Witness ==
    /\ pc = "min_query"
    /\ Last(calls) = "cancel:fallback"
    /\ "cancel:standard" \in Range(calls)
    /\ Len(tiers) = 2
    /\ tiers[1].outcome = "timeout"
    /\ tiers[2].outcome = "timeout"

\* main.py:158-159, 248-249: the intervals slept in the poll loop being run
\* (one sleep(6) for each increment of timeout_count)
Slept == timeout_count

\* C23: for a job that never completes, the Standard tier gives up after 10
\* poll intervals of 6 s and the Fallback tier after 8: neither tier sleeps
\* more intervals than its ceiling.
C23_PollCeiling ==
    /\ pc = "std_poll" => Slept <= StandardPollCeiling
    /\ pc = "fb_poll" => Slept <= FallbackPollCeiling

\* C24: the Fallback tier queries a reduced set of at most 3 partitions, for
\* every configured look-back window and every set of available partitions.
C24_FallbackAtMostThree ==
    u_pc = "selected" => Len(u_out.fallback) <= FallbackTables

\* the get_table probes made so far
ProbesMade == Cardinality({i \in DOMAIN calls : calls[i] = "get_table"})

\* the tier attempts of the run are queries of these partitions
TierTables(tier, tables) == \A i \in DOMAIN tiers : tiers[i].tier = tier => tiers[i].tables = tables

\* C25: partition availability is probed once per run, over the daysBack + 2
\* most recent days, and not again when tiers degrade; a failed probe leaves
\* out only its own day, the probing goes on; the Standard tier queries
\* exactly the first min(daysBack, number available) available partitions,
\* most recent first, and the Minimal tier only the most recent available one.
C25_ProbedOnce ==
    /\ [](/\ ProbesMade = probe_i
          /\ probe_i <= GA4_DAYS_BACK + 2
          /\ tiers # <<>> => probe_i = GA4_DAYS_BACK + 2
          /\ \A i \in DOMAIN available_tables :
                /\ available_tables[i] \in 0 .. probe_i - 1
                /\ i > 1 => available_tables[i - 1] < available_tables[i])
    /\ [][ /\ probe_i' # probe_i =>
                /\ pc = "fetch" \/ (pc = "probe" /\ pc' = "probe" /\ probe_i' = probe_i + 1)
                /\ pc = "probe" =>
                      available_tables' \in {available_tables, Append(available_tables, probe_i)}
           /\ (pc \notin {"fetch", "fetched"} /\ probe_i' = probe_i) =>
                 available_tables' = available_tables
           /\ Len(tiers') > Len(tiers) =>
                 LET t == tiers'[Len(tiers')]
                 IN /\ t.tier = "Standard" =>
                          t.tables = SubSeq(available_tables, 1,
                                            Min(GA4_DAYS_BACK, Len(available_tables)))
                    /\ t.tier = "Minimal" => t.tables = <<available_tables[1]>>
         ]_vars

\* today's probe failed and an older partition was found; all three tiers
\* have queried, the Minimal tier the most recent partition found, and no
\* probe was made after those of the fetcher's start
C25_Witness ==
    /\ Len(tiers) = 3
    /\ tiers[1].tier = "Standard"
    /\ tiers[1].tables = <<1>>
    /\ tiers[3].tier = "Minimal"
    /\ tiers[3].tables = <<1>>
    /\ ProbesMade = GA4_DAYS_BACK + 2

\* the bulk statements of the run, in the order they were issued
BulkWrites == SelectSeq(writes, LAMBDA w : w.stmt = "bulk")

\* the k-th consecutive slice of BatchSize deltas
Slice(k) ==
    SubSeq(pageviews_updates, (k - 1) * BatchSize + 1, Min(k * BatchSize, Len(pageviews_updates)))

\* C26: apply splits the delta list into consecutive batches of at most the
\* batch size and issues their bulk statements in list order: the k-th bulk
\* statement names the k-th slice of the list, no batch is empty or longer
\* than the batch size, and when apply has returned the slices issued cover
\* the list, so every delta is in exactly one batch.
C26_Batches ==
    /\ \A k \in DOMAIN BulkWrites :
          /\ BulkWrites[k].ids = Ids(Slice(k))
          /\ Len(BulkWrites[k].ids) \in 1 .. BatchSize
    /\ pc = "bulk" => batch_i = Len(BulkWrites) * BatchSize
    /\ pc = "indiv" => batch_i = (Len(BulkWrites) - 1) * BatchSize
    /\ Applied =>
          /\ (Len(BulkWrites) - 1) * BatchSize < Len(pageviews_updates)
          /\ Len(pageviews_updates) <= Len(BulkWrites) * BatchSize

\* a list longer than one batch has been applied: a full batch, then the rest
C26_Witness ==
    /\ pc = "done"
    /\ Len(pageviews_updates) = BatchSize + 1
    /\ Len(BulkWrites) = 2
    /\ Len(BulkWrites[1].ids) = BatchSize
    /\ Len(BulkWrites[2].ids) = 1

\* the positions of the run inside get_courses_articles_mapping_optimized
LoaderPositions == {"load_courses", "load_articles", "load_basic", "load_join", "load_debug"}

\* a table probe reports zero rows
ZeroRows == warehouse.courses = 0 \/ warehouse.articles = <<>>

\* C27: the loader's first remote calls are the probe of the course table and
\* then the probe of the article table; when a probe reports zero rows no
\* join query is issued; whatever a probe or a join query does, error
\* included, the loader returns: no exception leaves it, an empty mapping
\* makes the run end with status failed, and status error is never the
\* outcome of the load stage.
C27_LoaderErrors ==
    /\ [](/\ \A i \in DOMAIN calls :
                /\ calls[i] \in StageCalls["load"] \ {"courses_count"} =>
                      /\ i >= 3
                      /\ calls[2] = "courses_count"
                      /\ calls[3] = "articles_count"
                /\ calls[i] \in RemoteCalls => i >= 2 /\ calls[2] = "courses_count"
          /\ ZeroRows => ~Issued({"basic_join", "join", "debug"})
          /\ exc = "Exception" => started["reconcile"] # "no"
          /\ (pc = "done" /\ started["fetch"] = "no" /\ started["load"] = "within") =>
                /\ result.status = "failed"
                /\ DOMAIN mapping = {})
    /\ [][ /\ pc \in LoaderPositions =>
                 /\ exc' = "none"
                 /\ pc' \in LoaderPositions \union {"loaded"}
           /\ (pc = "loaded" /\ DOMAIN mapping = {}) =>
                 \/ pc' = "done" /\ result'.status = "failed"
                 \/ UNCHANGED <<pc, result>>
         ]_vars

\* the join query raised although the warehouse holds rows that give a
\* mapping: the run has ended with status failed
C27_Witness ==
    /\ pc = "done"
    /\ result.status = "failed"
    /\ Last(calls) = "join"
    /\ DOMAIN BuildMapping(JoinRows(warehouse.articles)) # {}
    /\ DOMAIN mapping = {}

\* C28: a run that ends with status failed or timeout has issued no update
\* statement, bulk or individual: update statements are issued only by runs
\* that reached the apply stage within budget with a non-empty mapping,
\* non-empty raw metrics and at least one delta.
C28_NoWriteUnlessApplied ==
    /\ (pc = "done" /\ result.status \in {"failed", "timeout"}) =>
          /\ writes = <<>>
          /\ ~Issued(StageCalls["apply"])
    /\ (writes # <<>> \/ Issued(StageCalls["apply"])) =>
          /\ started["apply"] = "within"
          /\ DOMAIN mapping # {}
          /\ ga4_data # <<>>
          /\ pageviews_updates # <<>>

\* the budget ran out between reconcile and apply: there were deltas to
\* write, and the run ended with status timeout
C28_Witness ==
    /\ pc = "done"
    /\ result.status = "timeout"
    /\ started["apply"] = "over"
    /\ pageviews_updates # <<>>
    /\ writes = <<>>

\* a tier's query has completed with zero rows
EmptyResult(i) == tiers[i].outcome = "ok" /\ ga4_data = <<>>

\* the fetch stage's remote calls, in order
FetchCalls == SelectSeq(calls, LAMBDA c : c \in StageCalls["fetch"])

\* the remote call that hands a tier's rows to the fetcher
ResultCall(tier) ==
    CASE tier = "Standard" -> "standard:result"
      [] tier = "Fallback" -> "fallback:result"
      [] tier = "Minimal" -> "minimal"

\* C29: a tier whose query completes successfully with zero rows does not
\* trigger degradation: it is the last tier attempted, the call that returned
\* its rows is the last remote call of the fetch stage, fetch returns the
\* empty list, and the run ends with status failed without reconciling.
C29_EmptyResultNoDegrade ==
    \A i \in DOMAIN tiers :
        /\ tiers[i].outcome = "ok" =>
              /\ i = Len(tiers)
              /\ Last(FetchCalls) = ResultCall(tiers[i].tier)
        /\ EmptyResult(i) =>
              /\ pc \in {"fetched", "done"}
              /\ pc = "done" => result = [status |-> "failed", error |-> "No GA4 data"]
              /\ started["reconcile"] = "no"

\* the Standard tier returned zero rows: no other tier ran, the run failed
C29_Witness ==
    /\ pc = "done"
    /\ Len(tiers) = 1
    /\ EmptyResult(1)
    /\ tiers[1].tier = "Standard"
    /\ result = [status |-> "failed", error |-> "No GA4 data"]

\* the remote calls that submit a statement
Submissions ==
    StageCalls["load"] \union StageCalls["apply"] \union {"standard", "fallback", "minimal"}

\* a statement is submitted in this step
Submits == Len(calls') > Len(calls) /\ Last(calls') \in Submissions

\* C21: at most one remote statement issued by the run is in flight at any
\* time: a statement is submitted only when every statement submitted before
\* it has returned or been cancelled, also when the client had stopped
\* waiting for it.
C21_OneInFlight ==
    /\ [](Cardinality(inflight) <= 1)
    /\ [][Submits => inflight = {}]_vars

\* C30: writes are absolute: when an update statement for a delta takes
\* effect on an article that a statement for the same delta has already
\* written (the bulk statement again, or the individual statement of the
\* fallback), the article's four metric fields are what they were after the
\* first; the other articles are left as they were.
C30_AbsoluteWrites ==
    u_pc = "again" =>
        \A i \in DOMAIN u_out.again : Metrics(u_out.again[i]) = Metrics(u_out.once[i])

\* an individual statement has written again an article whose stored
\* metrics the bulk statement had changed
C30_Witness ==
    /\ u_pc = "again"
    /\ u_out.second > 0
    /\ \E i \in DOMAIN u_in.articles :
          /\ u_in.articles[i].id = u_in.deltas[u_out.second].article_id
          /\ u_in.articles[i].pageviews > 0
          /\ Metrics(u_out.once[i]) # Metrics(u_in.articles[i])
          /\ Metrics(u_out.again[i]) = Metrics(u_out.once[i])

====
